---- MODULE Spec2Model ----
(***************************************************************************)
(* Model of aerofiles/score/olc.py, class Scorer: the layered dynamic      *)
(* programme over ordered fixes (find_graph / find_path), the              *)
(* unconstrained solvers (score, score_backwards) and the height           *)
(* constrained solvers (score_with_height, score_with_height_backwards).   *)
(*                                                                         *)
(* Arrays are 0-based functions, as in the source.  A path is a sequence   *)
(* of 0-based fix indices.  The fixes lie on the equator (lat = 0), so     *)
(* that cos(mean(lat)) = 1 and the projected Euclidean distance of         *)
(* simple_dist_matrix is |lon[i] - lon[j]|, an integer in the unit of lon  *)
(* (np.radians scales every distance by the same positive factor           *)
(* pi/180 < 1, which changes no comparison the code makes).                *)
(***************************************************************************)
EXTENDS Integers, Sequences, FiniteSets

\* ---------------------------------------------------------------- bounds
\* at most MaxN fixes, longitudes in 0..MaxLon, at most MaxIter passes of the
\* while loop of the height constrained solvers (a loop that does not end by
\* itself is cut there)
MaxN == 3
MaxLon == 2
MaxIter == 5
\* altitudes: equal, within H of each other, and more than H apart
AltChoices == {0, 600, 1200}

\* ------------------------------------------------------ program constants
layers == 7
H == 1000
Sentinel == -10000

VARIABLES lon, alt, op, pc, graph, original_graph, calculated, lower_bound,
          best_path, iterations, result

vars == <<lon, alt, op, pc, graph, original_graph, calculated, lower_bound,
          best_path, iterations, result>>

\* ---------------------------------------------------------------- helpers
Abs(x) == IF x < 0 THEN -x ELSE x

MaxOf(S) == CHOOSE m \in S : \A x \in S : x <= m

\* number of elements of a 0-based array
len(a) == Cardinality(DOMAIN a)

\* a[::-1]
Flipped(a) == [i \in DOMAIN a |-> a[len(a) - 1 - i]]

\* list(reversed(s)) / s[::-1] on a list
Reversed(s) == [i \in 1..Len(s) |-> s[Len(s) + 1 - i]]

\* np.argmax over a[0 .. n-1]: the first index of the maximum
ArgMax(a, n) ==
    LET m == MaxOf({a[i] : i \in 0..(n - 1)})
    IN  CHOOSE i \in 0..(n - 1) : a[i] = m /\ \A j \in 0..(i - 1) : a[j] # m

\* ------------------------------------------------------ simple_dist_matrix
simple_dist_matrix(x) ==
    [i \in DOMAIN x |-> [j \in DOMAIN x |-> Abs(x[i] - x[j])]]

\* ---------------------------------------------------------------- find_graph
MinOf(S) == CHOOSE m \in S : \A x \in S : m <= x

RECURSIVE LayerLoop_min(_, _, _, _)
\* mutant of LayerLoop: np.min for np.max
LayerLoop_min(g, dist_matrix, k, l) ==
    IF l >= layers - 1 THEN g
    ELSE LET options_graph == {g[l][j] + dist_matrix[k][j] : j \in 0..k}
         IN  LayerLoop_min([g EXCEPT ![l + 1][k] = MinOf(options_graph)],
                           dist_matrix, k, l + 1)

RECURSIVE LayerLoop(_, _, _, _)
\* for l in range(self.layers-1), at a fixed knot k
LayerLoop(g, dist_matrix, k, l) ==
    IF l >= layers - 1 THEN g
    ELSE LET options_graph == {g[l][j] + dist_matrix[k][j] : j \in 0..k}
         IN  LayerLoop([g EXCEPT ![l + 1][k] = MaxOf(options_graph)],
                       dist_matrix, k, l + 1)

RECURSIVE KnotLoop(_, _, _)
\* for k in range(0, knots)
KnotLoop(g, dist_matrix, k) ==
    IF k >= len(dist_matrix) THEN g
    ELSE KnotLoop(LayerLoop(g, dist_matrix, k, 0), dist_matrix, k + 1)

find_graph(dist_matrix, forbidden_start_index) ==
    LET knots == len(dist_matrix)
        zeros == [l \in 0..(layers - 1) |->
                    [k \in 0..(knots - 1) |->
                        IF l = 0 /\ k \in forbidden_start_index
                        THEN Sentinel ELSE 0]]
    IN  KnotLoop(zeros, dist_matrix, 0)

\* ---------------------------------------------------------------- find_path
RECURSIVE WalkBack(_, _, _, _)
\* for l in reversed(range(self.layers-1)): path.append(argmax(...))
WalkBack(path, g, dist_matrix, l) ==
    IF l < 0 THEN path
    ELSE LET cur == path[Len(path)]
             row == [j \in 0..cur |-> dist_matrix[cur][j] + g[l][j]]
         IN  WalkBack(Append(path, ArgMax(row, cur + 1)), g, dist_matrix, l - 1)

\* mutant of DefaultEnd: the argmax is taken over the first layer
DefaultEnd_first_layer(g) == ArgMax(g[0], len(g[0]))

\* reverse_from = None: graph[self.layers-1:] is the one-row block made of the
\* last layer, and argmax of the flattened block is the argmax of that row
DefaultEnd(g) == ArgMax(g[layers - 1], len(g[layers - 1]))

find_path(g, dist_matrix, reverse_from) ==
    Reversed(WalkBack(<<reverse_from>>, g, dist_matrix, layers - 2))

\* ---------------------------------------------------------------- flip_path
\* mutant of flip_path: the list is not reversed
flip_path_unreversed(path) ==
    LET knots == len(lon)
    IN  [i \in 1..Len(path) |-> knots - 1 - path[i]]

\* mutant of flip_path: the indices are not mapped back
flip_path_unmapped(path) == Reversed(path)

flip_path(path) ==
    LET knots == len(lon)
    IN  Reversed([i \in 1..Len(path) |-> knots - 1 - path[i]])

\* ---------------------------------------------------------------- inputs
N == len(lon)
EqualLengths == len(alt) = len(lon)

Arrays(n, S) == [0..(n - 1) -> S]

\* The fix arrays a caller hands in: n fixes, and either an altitude per fix
\* or an altitude array that is one short (the mismatched-lengths case).
Init ==
    /\ \E n \in 1..MaxN :
          /\ lon \in Arrays(n, 0..MaxLon)
          /\ alt \in Arrays(n, AltChoices) \cup Arrays(n - 1, {0})
    /\ op = "none"
    /\ pc = "idle"
    /\ graph = <<>>
    /\ original_graph = <<>>
    /\ calculated = <<>>
    /\ lower_bound = 0
    /\ best_path = <<>>
    /\ iterations = 0
    /\ result = <<>>

Return(name, path) ==
    /\ op' = name
    /\ pc' = "done"
    /\ result' = path

\* ---------------------------------------------------------------- score
\* (a local of the code is bound once, by \E over a singleton)
score ==
    /\ pc = "idle"
    /\ IF ~EqualLengths
       THEN Return("score", <<>>) /\ graph' = graph
       ELSE \E dist_matrix \in {simple_dist_matrix(lon)} :
            \E g \in {find_graph(dist_matrix, {})} :
               /\ graph' = g
               /\ Return("score", find_path(g, dist_matrix, DefaultEnd(g)))
    /\ UNCHANGED <<lon, alt, original_graph, calculated, lower_bound,
                   best_path, iterations>>

\* ---------------------------------------------------------------- score_backwards
score_backwards ==
    /\ pc = "idle"
    /\ IF ~EqualLengths
       THEN Return("score_backwards", <<>>) /\ graph' = graph
       ELSE \E dist_matrix \in {simple_dist_matrix(Flipped(lon))} :
            \E g \in {find_graph(dist_matrix, {})} :
               /\ graph' = g
               /\ Return("score_backwards",
                         flip_path(find_path(g, dist_matrix, DefaultEnd(g))))
    /\ UNCHANGED <<lon, alt, original_graph, calculated, lower_bound,
                   best_path, iterations>>

\* ---------------------------------------------------------------- score_with_height
\* check_alt of score_with_height
check_alt(a, path) == a[path[1]] - a[path[Len(path)]] <= H

\* np.nonzero(self.alt - self.alt[reverse_from] > 1000)[0]
forbidden_of(reverse_from) ==
    {j \in DOMAIN alt : alt[j] - alt[reverse_from] > H}

\* mutant of ZeroLast: the whole last layer is zeroed
ZeroLast_all(g, calc) ==
    [g EXCEPT ![layers - 1] = [k \in DOMAIN g[layers - 1] |-> 0]]

\* g[self.layers-1, calculated] = 0
ZeroLast(g, calc) ==
    [g EXCEPT ![layers - 1] =
        [k \in DOMAIN g[layers - 1] |->
            IF \E i \in 1..Len(calc) : calc[i] = k THEN 0 ELSE g[layers - 1][k]]]

\* np.nonzero(original_graph[self.layers-1,:] > lower_bound)[0]
remaining_of(og, lb) == {k \in DOMAIN og[layers - 1] : og[layers - 1][k] > lb}

\* lines 225-229: the state the while loop starts from
EnterLoop(name, g) ==
    /\ op' = name
    /\ pc' = "loop"
    /\ calculated' = <<>>
    /\ lower_bound' = 0
    /\ best_path' = <<>>
    /\ original_graph' = g
    /\ graph' = g
    /\ iterations' = 0
    /\ result' = <<>>

\* lines 209-229: up to the entry of the while loop
score_with_height ==
    /\ pc = "idle"
    /\ IF ~EqualLengths
       THEN /\ Return("score_with_height", <<>>)
            /\ UNCHANGED <<graph, original_graph, calculated, lower_bound,
                           best_path, iterations>>
       ELSE \E dist_matrix \in {simple_dist_matrix(lon)} :
            \E g \in {find_graph(dist_matrix, {})} :
            \E path \in {find_path(g, dist_matrix, DefaultEnd(g))} :
               IF check_alt(alt, path)
               THEN /\ Return("score_with_height", path)
                    /\ UNCHANGED <<graph, original_graph, calculated,
                                   lower_bound, best_path, iterations>>
               ELSE EnterLoop("score_with_height", g)
    /\ UNCHANGED <<lon, alt>>

\* lines 231-258: one pass of the while loop
score_with_height_loop ==
    /\ pc = "loop"
    /\ op = "score_with_height"
    /\ iterations < MaxIter
    /\ \E dist_matrix \in {simple_dist_matrix(lon)} :
       \E reverse_from \in {ArgMax(graph[layers - 1], len(graph[layers - 1]))} :
       \E forbidden_start_index \in {forbidden_of(reverse_from)} :
       \E g \in {find_graph(dist_matrix, forbidden_start_index)} :
       \E path \in {find_path(g, dist_matrix, reverse_from)} :
       \E distance \in {g[layers - 1][reverse_from]} :
       \E lb \in {IF distance > lower_bound THEN distance ELSE lower_bound} :
       \E bp \in {IF distance > lower_bound THEN path ELSE best_path} :
       \E calc \in {Append(calculated, path[Len(path)])} :
       \E og \in {ZeroLast(original_graph, calc)} :
           /\ iterations' = iterations + 1
           /\ IF path[1] \in forbidden_start_index \/ ~check_alt(alt, path)
              THEN \* AssertionError
                   /\ pc' = "raised"
                   /\ UNCHANGED <<graph, original_graph, calculated,
                                  lower_bound, best_path, result>>
              ELSE /\ lower_bound' = lb
                   /\ best_path' = bp
                   /\ calculated' = calc
                   /\ graph' = ZeroLast(g, calc)
                   /\ original_graph' = og
                   /\ IF remaining_of(og, lb) = {}
                      THEN pc' = "done" /\ result' = bp
                      ELSE pc' = "loop" /\ result' = result
    /\ UNCHANGED <<lon, alt, op>>

\* ---------------------------------------------------------------- score_with_height_backwards
\* check_alt of score_with_height_backwards (path[-0] is path[0])
check_alt_backwards(a, path) ==
    LET alt_flipped == Flipped(a)
    IN  alt_flipped[path[Len(path)]] - alt_flipped[path[1]] <= H

\* lines 260-288: up to the entry of the while loop
score_with_height_backwards ==
    /\ pc = "idle"
    /\ IF ~EqualLengths
       THEN /\ Return("score_with_height_backwards", <<>>)
            /\ UNCHANGED <<graph, original_graph, calculated, lower_bound,
                           best_path, iterations>>
       ELSE \E dist_matrix \in {simple_dist_matrix(Flipped(lon))} :
            \E g \in {find_graph(dist_matrix, {})} :
            \E path \in {find_path(g, dist_matrix, DefaultEnd(g))} :
               IF check_alt_backwards(alt, path)
               THEN /\ Return("score_with_height_backwards", flip_path(path))
                    /\ UNCHANGED <<graph, original_graph, calculated,
                                   lower_bound, best_path, iterations>>
               ELSE EnterLoop("score_with_height_backwards", g)
    /\ UNCHANGED <<lon, alt>>

\* lines 290-312: one pass of the while loop
score_with_height_backwards_loop ==
    /\ pc = "loop"
    /\ op = "score_with_height_backwards"
    /\ iterations < MaxIter
    /\ \E dist_matrix \in {simple_dist_matrix(Flipped(lon))} :
       \E reverse_from \in {ArgMax(graph[layers - 1], len(graph[layers - 1]))} :
       \E forbidden_start_index \in {forbidden_of(reverse_from)} :
       \E g \in {find_graph(dist_matrix, forbidden_start_index)} :
       \E path \in {find_path(g, dist_matrix, reverse_from)} :
       \E distance \in {g[layers - 1][reverse_from]} :
       \E lb \in {IF distance > lower_bound THEN distance ELSE lower_bound} :
       \E bp \in {IF distance > lower_bound THEN path ELSE best_path} :
       \E calc \in {Append(calculated, path[Len(path)])} :
       \E og \in {ZeroLast(original_graph, calc)} :
           /\ iterations' = iterations + 1
           /\ lower_bound' = lb
           /\ best_path' = bp
           /\ calculated' = calc
           /\ graph' = ZeroLast(g, calc)
           /\ original_graph' = og
           /\ IF remaining_of(og, lb) = {}
              THEN pc' = "done" /\ result' = flip_path(bp)
              ELSE pc' = "loop" /\ result' = result
    /\ UNCHANGED <<lon, alt, op>>

\* ================================================================ properties
\* the call `name` has returned on equal-length arrays
Returned(name) == pc = "done" /\ op = name /\ EqualLengths

\* the planar distance matrix the call in progress works on
D == simple_dist_matrix(lon)

RECURSIVE LegSum(_, _, _)
LegSum(path, dist_matrix, i) ==
    IF i >= Len(path) THEN 0
    ELSE dist_matrix[path[i]][path[i + 1]] + LegSum(path, dist_matrix, i + 1)

\* sum of dist_matrix over the consecutive vertices of a path
PathTotal(path, dist_matrix) == LegSum(path, dist_matrix, 1)

NonDecreasing(path) == \A i \in 1..(Len(path) - 1) : path[i] <= path[i + 1]

RECURSIVE NonDecSeqs(_, _, _)
\* every non-decreasing sequence of `count` indices in lo..hi
NonDecSeqs(count, lo, hi) ==
    IF count = 0 THEN {<<>>}
    ELSE UNION {{<<i>> \o t : t \in NonDecSeqs(count - 1, i, hi)} : i \in lo..hi}

AllPaths == NonDecSeqs(layers, 0, N - 1)

Feasible(path) == alt[path[1]] - alt[path[Len(path)]] <= H

\* the path Scorer.score returns on the current input
ScorePath ==
    LET g == find_graph(D, {})
    IN  find_path(g, D, DefaultEnd(g))

Next ==
    \/ score
    \/ score_backwards
    \/ score_with_height
    \/ score_with_height_loop
    \/ score_with_height_backwards
    \/ score_with_height_backwards_loop

Spec == Init /\ [][Next]_vars

\* ================================================================ claims
InRange(path) == \A i \in 1..Len(path) : path[i] \in 0..(N - 1)

LastRowMax(g) == MaxOf({g[layers - 1][k] : k \in DOMAIN g[layers - 1]})

\* the best planar total of a feasible path score_with_height has found when
\* it returns: the total of the path of the initial check, or lower_bound
BestFound == IF iterations = 0 THEN PathTotal(result, D) ELSE lower_bound

Visited(k) == \E i \in 1..Len(calculated) : calculated[i] = k

\* C1: every path score_with_height returns has a first and a last vertex
\* with alt[path[0]] - alt[path[-1]] <= 1000, and the assertions of the loop
\* never fail.
C1_HeightOfResult ==
    /\ pc # "raised"
    /\ Returned("score_with_height") =>
          /\ result # <<>>
          /\ alt[result[1]] - alt[result[Len(result)]] <= H

\* C2: the path score returns has the maximal total over all non-decreasing
\* sequences of `layers` indices, and that total is the maximum of the last
\* row of the score table.
C2_ScoreIsOptimal ==
    Returned("score") =>
        /\ PathTotal(result, D) = MaxOf({PathTotal(p, D) : p \in AllPaths})
        /\ PathTotal(result, D) = LastRowMax(graph)

C2_Witness ==
    /\ Returned("score")
    /\ N = MaxN
    /\ \E i \in 2..(layers - 1) : result[1] < result[i] /\ result[i] < result[layers]
    /\ PathTotal(result, D) > D[result[1]][result[layers]]

\* C3: when score_with_height returns, no feasible non-decreasing sequence of
\* `layers` indices has a larger planar total than the best feasible score
\* found; after the loop, original_graph bounds every feasible path that ends
\* at an unvisited endpoint.
C3_NoBetterFeasiblePath ==
    Returned("score_with_height") =>
        \A best \in {BestFound} : \A p \in AllPaths :
            Feasible(p) =>
                \A total \in {PathTotal(p, D)} :
                    /\ total <= best
                    /\ (iterations > 0 /\ ~Visited(p[layers])) =>
                           total <= original_graph[layers - 1][p[layers]]

C3_Witness ==
    /\ Returned("score_with_height")
    /\ iterations >= 1
    /\ lower_bound > 0
    /\ result # <<>>
    /\ \E k \in 0..(N - 1) : ~Visited(k) /\ original_graph[layers - 1][k] > 0

\* C4: on N >= 2 fixes the path score and score_with_height return has
\* exactly `layers` entries.
C4_FullLength ==
    ((Returned("score") \/ Returned("score_with_height")) /\ N >= 2) =>
        Len(result) = layers

\* C5: the loop of score_with_height runs at most N times.
C5_AtMostNIterations ==
    op = "score_with_height" => iterations <= N

\* C6: every path score_with_height_backwards returns satisfies
\* alt[path[0]] - alt[path[-1]] <= 1000 in the original indexing.
C6_HeightOfBackwardsResult ==
    (Returned("score_with_height_backwards") /\ result # <<>>) =>
        alt[result[1]] - alt[result[Len(result)]] <= H

\* C7: the paths score and score_backwards return are non-decreasing lists
\* of indices in [0, N).
C7_OrderedInRange ==
    (Returned("score") \/ Returned("score_backwards")) =>
        NonDecreasing(result) /\ InRange(result)

C7_Witness ==
    /\ Returned("score_backwards")
    /\ N = MaxN
    /\ result[1] < result[layers]
    /\ result # ScorePath

\* C8: with fewer than two fixes score and score_with_height return [].
C8_EmptyBelowTwoFixes ==
    ((Returned("score") \/ Returned("score_with_height")) /\ N < 2) =>
        result = <<>>

\* C9 as stated: with no forbidden start every layer of the score table is
\* non-decreasing in k.
C9_MonotoneInK ==
    Returned("score") =>
        \A l \in 0..(layers - 1) : \A k \in 1..(N - 1) :
            graph[l][k] >= graph[l][k - 1]

\* C9 amended: layer 0 is zero, and for l >= 1 the table does not decrease
\* along the layers, graph[l][k] >= graph[l-1][k], nor from (l-1, k-1) to
\* (l, k): graph[l][k] >= graph[l-1][k-1] + D[k][k-1].
C9_MonotoneInLayer ==
    Returned("score") =>
        /\ \A k \in 0..(N - 1) : graph[0][k] = 0
        /\ \A l \in 1..(layers - 1) : \A k \in 0..(N - 1) :
              /\ graph[l][k] >= graph[l - 1][k]
              /\ k >= 1 => graph[l][k] >= graph[l - 1][k - 1] + D[k][k - 1]

C9_Witness ==
    /\ Returned("score")
    /\ \E l \in 1..(layers - 1) : \E k \in 1..(N - 1) :
          /\ graph[l][k] < graph[l][k - 1]
          /\ graph[l][k] > graph[l - 1][k]

\* C10: the path score_backwards returns has the same total over the
\* original distance matrix as the path score returns on the same input.
C10_SameTotalBackwards ==
    Returned("score_backwards") =>
        PathTotal(result, D) = PathTotal(ScorePath, D)

C10_Witness ==
    /\ Returned("score_backwards")
    /\ result # ScorePath
    /\ PathTotal(result, D) > 0
====
